---- MODULE Spec2Model ----
(***************************************************************************)
(* Model of the synthetic SVG data generator                               *)
(* (src/1-generate-synthetic-data.ts) and of the JSONL converter            *)
(* (src/2-convert-svg-folder-to-gpt-4o-jsonl.ts).                           *)
(*                                                                         *)
(* Text is a sequence of one-character strings.  A nullable value is a     *)
(* sequence of length at most one: None is null/undefined, Some(x) is x.   *)
(***************************************************************************)
EXTENDS Integers, Sequences, FiniteSets, TLC

VARIABLES
    outputCount,          \* config.outputCount
    maxRetries,           \* config.maxRetries
    folderExists,         \* fs.existsSync(outputFolder)
    files,                \* the output folder: file name -> content
    pc,                   \* position of the single control flow
    i,                    \* loop index of generateAndSaveSVGs
    usedPrompts,          \* session state
    attempt,              \* attempt counter of the running retry loop
    newIdea,              \* value returned by generateNewIdea
    ideaCompletion,       \* the response of the idea call, while in scope
    chatCompletion,       \* the stream returned by the artifact call
    pos,                  \* number of chunks the for-await loop has pulled
    accumulatedResponse,  \* text accumulated by the current attempt
    result,               \* value returned by generateSVGWithGPT4
    log,                  \* history: events of the running retry loop
    ideaEntered,          \* history: entries into generateNewIdea
    ideaCalls,            \* history: idea requests sent to the collaborator
    svgCalls,             \* history: artifact requests sent
    ideaOks,              \* history: idea requests that returned
    genDelays,            \* history: generationDelay pauses taken
    written,              \* history: names of the files written by this run
    failure,              \* history: what aborted the run ("" when nothing)
    inFlight,             \* history: collaborator requests not yet settled
    saved,                \* history: the results that were saved, in order
    discarded,            \* history: text accumulated by failed attempts of the call
    mockIdeas,            \* scripted collaborator: idea responses
    mockStreams,          \* scripted collaborator: artifact streams
    fnIn,                 \* argument of the function under test
    fnOut                 \* value it returned

vars == <<outputCount, maxRetries, folderExists, files, pc, i, usedPrompts,
          attempt, newIdea, ideaCompletion, chatCompletion, pos, accumulatedResponse, result,
          log, ideaEntered, ideaCalls, svgCalls, ideaOks, genDelays, written,
          failure, inFlight, saved, discarded, mockIdeas, mockStreams, fnIn,
          fnOut>>

---------------------------------------------------------------------------
(* Bounds of the model *)

MaxOutputCount == 2
MaxRetriesBound == 2
MaxFrags == 3
MaxTextLen == 6
MaxNameLen == 3

---------------------------------------------------------------------------
(* Nullable values and text *)

None == <<>>
Some(x) == <<x>>
IsNone(o) == Len(o) = 0
Val(o) == o[1]

RECURSIVE SeqsUpTo(_, _)
SeqsUpTo(S, n) ==
    IF n = 0 THEN {<<>>}
    ELSE LET shorter == SeqsUpTo(S, n - 1)
         IN  shorter \cup {Append(s, c) : s \in {t \in shorter : Len(t) = n - 1}, c \in S}

SeqsOfLen(S, n) == {s \in SeqsUpTo(S, n) : Len(s) = n}

Range(s) == {s[k] : k \in DOMAIN s}

\* String.prototype.trim strips white space and line terminators.
WhiteSpace == {" ", "\t", "\n"}

RECURSIVE TrimStart(_)
TrimStart(s) ==
    IF s # <<>> /\ Head(s) \in WhiteSpace THEN TrimStart(Tail(s)) ELSE s

RECURSIVE TrimEnd(_)
TrimEnd(s) ==
    IF s # <<>> /\ s[Len(s)] \in WhiteSpace
    THEN TrimEnd(SubSeq(s, 1, Len(s) - 1)) ELSE s

Trim(s) == TrimEnd(TrimStart(s))

StartsWith(s, p) == Len(s) >= Len(p) /\ SubSeq(s, 1, Len(p)) = p

SvgTag == <<"<", "s", "v", "g">>
SvgExt == <<".", "s", "v", "g">>

---------------------------------------------------------------------------
(* sanitizeFilename: filename.replace(/[^a-z0-9]/gi, '_').toLowerCase() *)

LowerLetters == <<"a", "b", "c", "d", "e", "f", "g", "h", "i", "j", "k", "l", "m",
                  "n", "o", "p", "q", "r", "s", "t", "u", "v", "w", "x", "y", "z">>
UpperLetters == <<"A", "B", "C", "D", "E", "F", "G", "H", "I", "J", "K", "L", "M",
                  "N", "O", "P", "Q", "R", "S", "T", "U", "V", "W", "X", "Y", "Z">>
Digits == {"0", "1", "2", "3", "4", "5", "6", "7", "8", "9"}

\* Letters outside ASCII that toLowerCase also maps.
UpperOther == <<"U+00C9">>
LowerOther == <<"U+00E9">>

\* The class [a-z0-9] under the i flag (no u flag: only ASCII letters match).
AsciiAlnum == Range(LowerLetters) \cup Range(UpperLetters) \cup Digits

MatchesAlnum(c) == c \in AsciiAlnum

\* The lowercase form of every character that has one.
LowerOf ==
    [c \in Range(UpperLetters) \cup Range(UpperOther) |->
        IF c \in Range(UpperLetters)
        THEN LowerLetters[CHOOSE k \in DOMAIN UpperLetters : UpperLetters[k] = c]
        ELSE LowerOther[CHOOSE k \in DOMAIN UpperOther : UpperOther[k] = c]]

ToLowerChar(c) == IF c \in DOMAIN LowerOf THEN LowerOf[c] ELSE c

ReplaceNonAlnum(s) == [k \in DOMAIN s |-> IF MatchesAlnum(s[k]) THEN s[k] ELSE "_"]

\* A replace that collapses each run of offending characters to one "_".
RECURSIVE ReplaceRuns(_)
ReplaceRuns(s) ==
    IF s = <<>> THEN <<>>
    ELSE IF MatchesAlnum(Head(s)) THEN <<Head(s)>> \o ReplaceRuns(Tail(s))
    ELSE LET rest == ReplaceRuns(Tail(s))
         IN  IF Len(s) > 1 /\ ~MatchesAlnum(s[2]) THEN rest ELSE <<"_">> \o rest

ToLowerCase(s) == [k \in DOMAIN s |-> ToLowerChar(s[k])]

sanitizeFilenameCollapsing(filename) == ToLowerCase(ReplaceRuns(filename))

sanitizeFilename(filename) == ToLowerCase(ReplaceNonAlnum(filename))

\* path.join(outputFolder, `${sanitizedFilename}.svg`), relative to the folder
FileNameOf(idea) == sanitizeFilename(idea) \o SvgExt

---------------------------------------------------------------------------
(* validateSVG: data.svg.trim().startsWith('<svg') *)

validateSVGNoTrim(data) == StartsWith(data.svg, SvgTag)

validateSVG(data) == StartsWith(Trim(data.svg), SvgTag)

---------------------------------------------------------------------------
(* The model collaborator (portkey.chat.completions.create) and the folder *)

\* One streamed chunk.  kind "throw" stands for the iterator rejecting, or
\* for a chunk without choices[0], whose handling raises inside the try.
Chunk(content, finish) == [kind |-> "chunk", content |-> content, finish |-> finish]
Throw == [kind |-> "throw", content |-> None, finish |-> "none"]

FinishReasons == {"none", "stop", "length", "content_filter"}

\* Non-streamed responses: the content of choices[0].message, when present.
IdeaResponses ==
    { None,
      Some(<<" ">>),
      Some(<<"A", "!">>),
      Some(<<" ", "a", "_">>),
      Some(<<"b">>) }

Streams ==
    { <<Chunk(Some(<<" ">>), "none"), Chunk(Some(SvgTag), "none"), Chunk(None, "stop")>>,
      <<Chunk(Some(SvgTag), "none"), Throw>>,
      <<Chunk(Some(<<"x">>), "none"), Chunk(Some(SvgTag), "stop"), Chunk(Some(SvgTag), "none")>>,
      <<Chunk(Some(SvgTag), "none"), Chunk(Some(<<"x">>), "none")>>,
      <<Chunk(Some(SvgTag), "length")>> }

EmptyFolder == [n \in {} |-> <<>>]

\* A folder left by an earlier run: one file, which is not an SVG.
OldFolder == [n \in {FileNameOf(<<"b">>)} |-> <<"o", "l", "d">>]

WriteFileKeepsExisting(fs, name, data) ==
    [n \in DOMAIN fs \cup {name} |-> IF n \in DOMAIN fs THEN fs[n] ELSE data]

\* fs.writeFileSync(filename, data): creates or replaces the file.
WriteFile(fs, name, data) ==
    [n \in DOMAIN fs \cup {name} |-> IF n = name THEN data ELSE fs[n]]

---------------------------------------------------------------------------
(* The retry loops of generateNewIdea and generateSVGWithGPT4 *)

AttemptsRemainOffByOne(a) == a < maxRetries

\* for (let attempt = 1; attempt <= config.maxRetries; attempt++)
AttemptsRemain(a) == a <= maxRetries

ShouldDelayNever(a) == FALSE

ShouldDelayAlways(a) == TRUE

\* if (attempt < config.maxRetries) await setTimeout(retryDelay)
ShouldDelay(a) == a < maxRetries

\* chatCompletion.choices?.[0]?.message?.content?.trim() ?? ''
IdeaText(c) == IF IsNone(c) THEN <<>> ELSE Trim(Val(c))

FalsyNullOnly(o) == IsNone(o)

\* !newIdea: null and the empty string are falsy
Falsy(o) == IF IsNone(o) THEN TRUE ELSE Val(o) = <<>>

\* chunk.choices[0].delta?.content as a condition
Truthy(o) == ~Falsy(o)

\* finish_reason === "stop" || finish_reason === "length"
IsTerminal(chunk) == chunk.finish \in {"stop", "length"}

AccStepContentFirst(acc, chunk) ==
    IF Truthy(chunk.content) THEN acc \o Val(chunk.content) ELSE acc

\* The body of the for-await loop: what it leaves in accumulatedResponse.
AccStep(acc, chunk) ==
    IF IsTerminal(chunk) THEN acc
    ELSE IF Truthy(chunk.content) THEN acc \o Val(chunk.content)
    ELSE acc

ParsedUntrimmed(description, acc) == [description |-> description, svg |-> acc]

\* const result = { description, svg: accumulatedResponse.trim() }
Parsed(description, acc) == [description |-> description, svg |-> Trim(acc)]

config == <<outputCount, maxRetries>>
mock == <<mockIdeas, mockStreams>>
fn == <<fnIn, fnOut>>
folder == <<folderExists, files, written>>
counters == <<ideaEntered, ideaCalls, svgCalls, ideaOks, genDelays>>
streamVars == <<chatCompletion, pos, accumulatedResponse>>
hist == <<inFlight, saved, discarded>>

---------------------------------------------------------------------------
(* generateAndSaveSVGs: set-up *)

SetupExists ==
    /\ pc = "start"
    /\ folderExists
    /\ pc' = "loop"
    /\ UNCHANGED <<hist, ideaCompletion, config, folder, i, usedPrompts,
                   attempt, newIdea, streamVars, result, log, counters, failure,
                   mock, fn>>

SetupMkdirOk ==
    /\ pc = "start"
    /\ ~folderExists
    /\ folderExists' = TRUE
    /\ pc' = "loop"
    /\ UNCHANGED <<hist, ideaCompletion, config, files, written, i, usedPrompts,
                   attempt, newIdea, streamVars, result, log, counters, failure,
                   mock, fn>>

SetupMkdirFailsSwallowed ==
    /\ pc = "start"
    /\ ~folderExists
    /\ pc' = "loop"
    /\ failure' = "mkdir"
    /\ UNCHANGED <<hist, ideaCompletion, config, folder, i, usedPrompts,
                   attempt, newIdea, streamVars, result, log, counters, mock,
                   fn>>

\* fs.mkdirSync throws: the error leaves generateAndSaveSVGs and is logged
\* by the top-level catch.
SetupMkdirFails ==
    /\ pc = "start"
    /\ ~folderExists
    /\ pc' = "aborted"
    /\ failure' = "mkdir"
    /\ UNCHANGED <<hist, ideaCompletion, config, folder, i, usedPrompts,
                   attempt, newIdea, streamVars, result, log, counters, mock,
                   fn>>

(* the loop head *)

LoopGuardOffByOne(k) == k <= outputCount

\* for (let i = 0; i < outputCount; i++)
LoopGuard(k) == k < outputCount

LoopEnter ==
    /\ pc = "loop"
    /\ LoopGuard(i)
    /\ pc' = "idea"
    /\ attempt' = 1
    /\ log' = <<>>
    /\ ideaEntered' = ideaEntered + 1
    /\ UNCHANGED <<hist, ideaCompletion, config, folder, i, usedPrompts,
                   newIdea, streamVars, result, ideaCalls, svgCalls, ideaOks,
                   genDelays, failure, mock, fn>>

LoopExit ==
    /\ pc = "loop"
    /\ ~LoopGuard(i)
    /\ pc' = "done"
    /\ UNCHANGED <<hist, ideaCompletion, config, folder, i, usedPrompts,
                   attempt, newIdea, streamVars, result, log, counters, failure,
                   mock, fn>>

---------------------------------------------------------------------------
(* generateNewIdea *)

IdeaCallNotAwaited ==
    /\ pc = "idea"
    /\ AttemptsRemain(attempt)
    /\ pc' = "ideaRet"
    /\ newIdea' = Some(<<"b">>)
    /\ ideaCalls' = ideaCalls + 1
    /\ inFlight' = inFlight + 1
    /\ UNCHANGED <<saved, discarded, ideaCompletion, config, folder, i,
                   usedPrompts, attempt, streamVars, result, log, ideaEntered,
                   svgCalls, ideaOks, genDelays, failure, mock, fn>>

\* await openai.chat.completions.create(...): the request is sent and awaited
IdeaCall ==
    /\ pc = "idea"
    /\ AttemptsRemain(attempt)
    /\ pc' = "ideaWait"
    /\ ideaCalls' = ideaCalls + 1
    /\ inFlight' = inFlight + 1
    /\ UNCHANGED <<saved, discarded, ideaCompletion, config, folder, i,
                   usedPrompts, attempt, newIdea, streamVars, result, log,
                   ideaEntered, svgCalls, ideaOks, genDelays, failure, mock,
                   fn>>

IdeaResponds(c) ==
    /\ pc = "ideaWait"
    /\ ideaCompletion' = c
    /\ newIdea' = Some(IdeaText(c))
    /\ log' = Append(log, "ok")
    /\ ideaOks' = ideaOks + 1
    /\ inFlight' = inFlight - 1
    /\ pc' = "ideaRet"
    /\ UNCHANGED <<saved, discarded, config, folder, i, usedPrompts, attempt,
                   streamVars, result, ideaEntered, ideaCalls, svgCalls,
                   genDelays, failure, mock, fn>>

IdeaFails ==
    /\ pc = "ideaWait"
    /\ log' = Append(log, "fail")
    /\ inFlight' = inFlight - 1
    /\ IF ShouldDelay(attempt)
       THEN pc' = "ideaDelay" /\ attempt' = attempt
       ELSE pc' = "idea" /\ attempt' = attempt + 1
    /\ UNCHANGED <<saved, discarded, ideaCompletion, config, folder, i,
                   usedPrompts, newIdea, streamVars, result, counters, failure,
                   mock, fn>>

IdeaRetryDelay ==
    /\ pc = "ideaDelay"
    /\ log' = Append(log, "delay")
    /\ attempt' = attempt + 1
    /\ pc' = "idea"
    /\ UNCHANGED <<hist, ideaCompletion, config, folder, i, usedPrompts,
                   newIdea, streamVars, result, counters, failure, mock, fn>>

IdeaExhausted ==
    /\ pc = "idea"
    /\ ~AttemptsRemain(attempt)
    /\ newIdea' = None
    /\ pc' = "ideaRet"
    /\ UNCHANGED <<hist, ideaCompletion, config, folder, i, usedPrompts,
                   attempt, streamVars, result, log, counters, failure, mock,
                   fn>>

(* back in the loop body: if (!newIdea) continue; usedPrompts.push(newIdea) *)

AfterContinueSameSlot(k) == k

\* continue runs the loop's i++
AfterContinue(k) == k + 1

IdeaSkipPaced ==
    /\ pc = "ideaRet"
    /\ Falsy(newIdea)
    /\ i' = i
    /\ pc' = "genDelay"
    /\ ideaCompletion' = None
    /\ log' = <<>>
    /\ newIdea' = None
    /\ attempt' = 1
    /\ UNCHANGED <<hist, config, folder, usedPrompts, streamVars, result,
                   counters, failure, mock, fn>>

\* if (!newIdea) { ...; continue; }
IdeaSkip ==
    /\ pc = "ideaRet"
    /\ Falsy(newIdea)
    /\ i' = AfterContinue(i)
    /\ pc' = "loop"
    /\ ideaCompletion' = None
    /\ log' = <<>>
    /\ newIdea' = None
    /\ attempt' = 1
    /\ UNCHANGED <<hist, config, folder, usedPrompts, streamVars, result,
                   counters, failure, mock, fn>>

IdeaAcceptWithoutPush ==
    /\ pc = "ideaRet"
    /\ ~Falsy(newIdea)
    /\ attempt' = 1
    /\ log' = <<>>
    /\ ideaCompletion' = None
    /\ pc' = "svg"
    /\ UNCHANGED <<hist, config, folder, i, usedPrompts, newIdea, streamVars,
                   result, counters, failure, mock, fn>>

\* usedPrompts.push(newIdea)
IdeaAccept ==
    /\ pc = "ideaRet"
    /\ ~Falsy(newIdea)
    /\ usedPrompts' = Append(usedPrompts, Val(newIdea))
    /\ attempt' = 1
    /\ log' = <<>>
    /\ ideaCompletion' = None
    /\ pc' = "svg"
    /\ UNCHANGED <<hist, config, folder, i, newIdea, streamVars, result,
                   counters, failure, mock, fn>>

---------------------------------------------------------------------------
(* generateSVGWithGPT4 *)

SvgCall ==
    /\ pc = "svg"
    /\ AttemptsRemain(attempt)
    /\ pc' = "svgWait"
    /\ svgCalls' = svgCalls + 1
    /\ inFlight' = inFlight + 1
    /\ UNCHANGED <<saved, discarded, ideaCompletion, config, folder, i,
                   usedPrompts, attempt, newIdea, streamVars, result, log,
                   ideaEntered, ideaCalls, ideaOks, genDelays, failure, mock,
                   fn>>

AccumulatorCarried(acc) == acc

\* let accumulatedResponse = "": every attempt starts from the empty text
AccumulatorAtStart(acc) == <<>>

\* create() resolves with a stream
SvgResponds(s) ==
    /\ pc = "svgWait"
    /\ chatCompletion' = s
    /\ pos' = 0
    /\ accumulatedResponse' = AccumulatorAtStart(accumulatedResponse)
    /\ pc' = "stream"
    /\ UNCHANGED <<hist, ideaCompletion, config, folder, i, usedPrompts,
                   attempt, newIdea, result, log, counters, failure, mock, fn>>

\* The catch block of an attempt.
SvgCatch ==
    /\ log' = Append(log, "fail")
    /\ inFlight' = inFlight - 1
    /\ IF ShouldDelay(attempt)
       THEN pc' = "svgDelay" /\ attempt' = attempt
       ELSE pc' = "svg" /\ attempt' = attempt + 1

\* create() rejects
SvgFails ==
    /\ pc = "svgWait"
    /\ SvgCatch
    /\ UNCHANGED <<saved, discarded, ideaCompletion, config, folder, i,
                   usedPrompts, newIdea, streamVars, result, counters, failure,
                   mock, fn>>

\* The end of an attempt that did not raise: build the result and return it.
SvgReturn(acc) ==
    /\ result' = Some(Parsed(Val(newIdea), acc))
    /\ log' = Append(log, "ok")
    /\ inFlight' = inFlight - 1
    /\ pc' = "svgRet"

\* for await (const chunk of chatCompletion): a chunk that does not end the loop
StreamChunk ==
    /\ pc = "stream"
    /\ pos < Len(chatCompletion)
    /\ LET chunk == chatCompletion[pos + 1]
       IN  /\ chunk.kind = "chunk"
           /\ ~IsTerminal(chunk)
           /\ accumulatedResponse' = AccStep(accumulatedResponse, chunk)
    /\ pos' = pos + 1
    /\ UNCHANGED <<hist, ideaCompletion, config, folder, pc, i, usedPrompts,
                   attempt, newIdea, chatCompletion, result, log, counters,
                   failure, mock, fn>>

\* a chunk with finish_reason "stop" or "length": break
StreamBreak ==
    /\ pc = "stream"
    /\ pos < Len(chatCompletion)
    /\ LET chunk == chatCompletion[pos + 1]
       IN  /\ chunk.kind = "chunk"
           /\ IsTerminal(chunk)
           /\ accumulatedResponse' = AccStep(accumulatedResponse, chunk)
           /\ SvgReturn(AccStep(accumulatedResponse, chunk))
    /\ pos' = pos + 1
    /\ UNCHANGED <<saved, discarded, ideaCompletion, config, folder, i,
                   usedPrompts, attempt, newIdea, chatCompletion, counters,
                   failure, mock, fn>>

\* the stream is exhausted without a terminal chunk
StreamEnd ==
    /\ pc = "stream"
    /\ pos = Len(chatCompletion)
    /\ SvgReturn(accumulatedResponse)
    /\ UNCHANGED <<saved, discarded, ideaCompletion, config, folder, i,
                   usedPrompts, attempt, newIdea, streamVars, counters, failure,
                   mock, fn>>

\* the iteration raises: the attempt's catch block runs
StreamThrows ==
    /\ pc = "stream"
    /\ pos < Len(chatCompletion)
    /\ chatCompletion[pos + 1].kind = "throw"
    /\ pos' = pos + 1
    /\ discarded' = discarded \o accumulatedResponse
    /\ SvgCatch
    /\ UNCHANGED <<saved, ideaCompletion, config, folder, i, usedPrompts,
                   newIdea, chatCompletion, accumulatedResponse, result,
                   counters, failure, mock, fn>>

SvgRetryDelay ==
    /\ pc = "svgDelay"
    /\ log' = Append(log, "delay")
    /\ attempt' = attempt + 1
    /\ pc' = "svg"
    /\ UNCHANGED <<hist, ideaCompletion, config, folder, i, usedPrompts,
                   newIdea, streamVars, result, counters, failure, mock, fn>>

SvgExhausted ==
    /\ pc = "svg"
    /\ ~AttemptsRemain(attempt)
    /\ result' = None
    /\ pc' = "svgRet"
    /\ UNCHANGED <<hist, ideaCompletion, config, folder, i, usedPrompts,
                   attempt, newIdea, streamVars, log, counters, failure, mock,
                   fn>>

---------------------------------------------------------------------------
(* back in the loop body: validate, save, pace *)

AcceptsAlways(r) == ~IsNone(r)

\* if (result && validateSVG(result))
Accepts(r) == IF IsNone(r) THEN FALSE ELSE validateSVG(Val(r))

PacesAlways(k) == TRUE

\* if (i < outputCount - 1): a generationDelay follows
Paces(k) == k < outputCount - 1

\* The end of the loop body, and i++ when no delay is due; the locals of the
\* iteration and of the calls it made go out of scope.
EndOfBody ==
    /\ IF Paces(i)
       THEN pc' = "genDelay" /\ i' = i
       ELSE pc' = "loop" /\ i' = i + 1
    /\ chatCompletion' = <<>>
    /\ pos' = 0
    /\ accumulatedResponse' = <<>>
    /\ log' = <<>>
    /\ newIdea' = None
    /\ result' = None
    /\ attempt' = 1
    /\ discarded' = <<>>

SaveOk ==
    /\ pc = "svgRet"
    /\ Accepts(result)
    /\ files' = WriteFile(files, FileNameOf(Val(newIdea)), Val(result).svg)
    /\ written' = written \cup {FileNameOf(Val(newIdea))}
    /\ saved' = Append(saved, Val(result))
    /\ EndOfBody
    /\ UNCHANGED <<inFlight, ideaCompletion, config, folderExists, usedPrompts,
                   counters, failure, mock, fn>>

\* fs.writeFileSync throws: nothing in the loop catches it
SaveFails ==
    /\ pc = "svgRet"
    /\ Accepts(result)
    /\ pc' = "aborted"
    /\ failure' = "write"
    /\ UNCHANGED <<hist, ideaCompletion, config, folder, i, usedPrompts,
                   attempt, newIdea, streamVars, result, log, counters, mock,
                   fn>>

SkipInvalidRetries ==
    /\ pc = "svgRet"
    /\ ~Accepts(result)
    /\ IF ~IsNone(result) /\ AttemptsRemain(attempt + 1)
       THEN /\ pc' = "svg"
            /\ attempt' = attempt + 1
            /\ result' = None
            /\ UNCHANGED <<i, streamVars, log, newIdea, discarded>>
       ELSE EndOfBody
    /\ UNCHANGED <<inFlight, saved, ideaCompletion, config, folder, usedPrompts,
                   counters, failure, mock, fn>>

\* else: the result is null or not valid, and the iteration is skipped
SkipInvalid ==
    /\ pc = "svgRet"
    /\ ~Accepts(result)
    /\ EndOfBody
    /\ UNCHANGED <<inFlight, saved, ideaCompletion, config, folder, usedPrompts,
                   counters, failure, mock, fn>>

GenerationDelay ==
    /\ pc = "genDelay"
    /\ genDelays' = genDelays + 1
    /\ i' = i + 1
    /\ pc' = "loop"
    /\ UNCHANGED <<hist, ideaCompletion, config, folder, usedPrompts, attempt,
                   newIdea, streamVars, result, log, ideaEntered, ideaCalls,
                   svgCalls, ideaOks, failure, mock, fn>>

---------------------------------------------------------------------------
(* A run against a collaborator whose every outcome is open *)

\* The state every run starts from, the configuration and folder aside.
Fresh ==
    /\ i = 0
    /\ usedPrompts = <<>>
    /\ attempt = 1
    /\ newIdea = None
    /\ ideaCompletion = None
    /\ chatCompletion = <<>>
    /\ pos = 0
    /\ accumulatedResponse = <<>>
    /\ result = None
    /\ log = <<>>
    /\ ideaEntered = 0
    /\ ideaCalls = 0
    /\ svgCalls = 0
    /\ ideaOks = 0
    /\ genDelays = 0
    /\ written = {}
    /\ failure = ""
    /\ inFlight = 0
    /\ saved = <<>>
    /\ discarded = <<>>

Init ==
    /\ outputCount \in 0..MaxOutputCount
    /\ maxRetries \in 0..MaxRetriesBound
    /\ folderExists \in BOOLEAN
    /\ files \in (IF folderExists THEN {EmptyFolder, OldFolder} ELSE {EmptyFolder})
    /\ pc = "start"
    /\ Fresh
    /\ mockIdeas = <<>>
    /\ mockStreams = <<>>
    /\ fnIn = <<>>
    /\ fnOut = <<>>

Next ==
    \/ SetupExists
    \/ SetupMkdirOk
    \/ SetupMkdirFails
    \/ LoopEnter
    \/ LoopExit
    \/ IdeaCall
    \/ \E c \in IdeaResponses : IdeaResponds(c)
    \/ IdeaFails
    \/ IdeaRetryDelay
    \/ IdeaExhausted
    \/ IdeaSkip
    \/ IdeaAccept
    \/ SvgCall
    \/ \E s \in Streams : SvgResponds(s)
    \/ SvgFails
    \/ StreamChunk
    \/ StreamBreak
    \/ StreamEnd
    \/ StreamThrows
    \/ SvgRetryDelay
    \/ SvgExhausted
    \/ SaveOk
    \/ SaveFails
    \/ SkipInvalid
    \/ GenerationDelay

Spec == Init /\ [][Next]_vars

\* Every call returns or fails, every stream is consumed, every delay elapses.
FairSpec == Spec /\ WF_vars(Next)

---------------------------------------------------------------------------
(* A run of three iterations against a scripted collaborator that answers  *)
(* every request: the j-th idea request with mockIdeas[j], the j-th        *)
(* artifact request with the stream mockStreams[j].                        *)

\* Ideas that are not blank.
E2EIdeas ==
    { Some(<<"A", "!">>), Some(<<" ", "a", "_">>), Some(<<"b">>), Some(<<"c">>) }

\* Artifacts the validator accepts, streamed in order, a terminal chunk (if
\* any) last and without content.
E2EStreams ==
    { <<Chunk(Some(<<" ">>), "none"), Chunk(Some(SvgTag), "none"), Chunk(None, "stop")>>,
      <<Chunk(Some(SvgTag), "none"), Chunk(Some(<<"x">>), "none")>>,
      <<Chunk(Some(SvgTag), "none"), Chunk(Some(<<"\n">>), "none"), Chunk(None, "length")>> }

Distinct(q) == \A j, k \in DOMAIN q : j # k => q[j] # q[k]

InitE2E ==
    /\ outputCount = 3
    /\ maxRetries \in 1..MaxRetriesBound
    /\ folderExists = TRUE
    /\ files = EmptyFolder
    /\ pc = "start"
    /\ Fresh
    /\ mockIdeas \in {q \in SeqsOfLen(E2EIdeas, 3) : Distinct(q)}
    /\ mockStreams \in SeqsOfLen(E2EStreams, 3)
    /\ fnIn = <<>>
    /\ fnOut = <<>>

NextE2E ==
    \/ SetupExists
    \/ LoopEnter
    \/ LoopExit
    \/ IdeaCall
    \/ IdeaResponds(mockIdeas[i + 1])
    \/ IdeaAccept
    \/ SvgCall
    \/ SvgResponds(mockStreams[i + 1])
    \/ StreamChunk
    \/ StreamBreak
    \/ StreamEnd
    \/ SaveOk
    \/ SaveFails
    \/ GenerationDelay

SpecE2E == InitE2E /\ [][NextE2E]_vars

---------------------------------------------------------------------------
(* The for-await loop on every stream of at most MaxFrags chunks *)

StreamContents == {None, Some(<<>>), Some(SvgTag), Some(<<" ">>)}

StreamChunks == {Chunk(c, f) : c \in StreamContents, f \in FinishReasons}

\* The state right after create() resolved with the stream.
InitStream ==
    /\ outputCount = 1
    /\ maxRetries = 1
    /\ folderExists = TRUE
    /\ files = EmptyFolder
    /\ written = {}
    /\ failure = ""
    /\ pc = "stream"
    /\ i = 0
    /\ usedPrompts = << <<"b">> >>
    /\ attempt = 1
    /\ newIdea = Some(<<"b">>)
    /\ ideaCompletion = None
    /\ chatCompletion \in SeqsUpTo(StreamChunks, MaxFrags)
    /\ pos = 0
    /\ accumulatedResponse = <<>>
    /\ result = None
    /\ log = <<>>
    /\ ideaEntered = 1
    /\ ideaCalls = 1
    /\ svgCalls = 1
    /\ ideaOks = 1
    /\ genDelays = 0
    /\ inFlight = 1
    /\ saved = <<>>
    /\ discarded = <<>>
    /\ mockIdeas = <<>>
    /\ mockStreams = <<>>
    /\ fnIn = <<>>
    /\ fnOut = <<>>

NextStream ==
    \/ StreamChunk
    \/ StreamBreak
    \/ StreamEnd

SpecStream == InitStream /\ [][NextStream]_vars

---------------------------------------------------------------------------
(* validateSVG and sanitizeFilename on every text up to a length *)

TextChars == {" ", "\n", "<", "s", "v", "g"}

NameChars == {"A", "a", "7", "_", " ", "!", "U+00C9"}

InitFn ==
    /\ outputCount = 0
    /\ maxRetries = 0
    /\ folderExists = TRUE
    /\ files = EmptyFolder
    /\ Fresh
    /\ mockIdeas = <<>>
    /\ mockStreams = <<>>

InitValidate ==
    /\ InitFn
    /\ pc = "validate"
    /\ fnIn \in SeqsUpTo(TextChars, MaxTextLen)
    /\ fnOut = FALSE

ValidateCall ==
    /\ pc = "validate"
    /\ fnOut' = validateSVG([description |-> <<>>, svg |-> fnIn])
    /\ pc' = "validated"
    /\ UNCHANGED <<hist, config, folder, i, usedPrompts, attempt, newIdea,
                   ideaCompletion, streamVars, result, log, counters, failure,
                   mock, fnIn>>

SpecValidate == InitValidate /\ [][ValidateCall]_vars

InitSanitize ==
    /\ InitFn
    /\ pc = "sanitize"
    /\ fnIn \in SeqsUpTo(NameChars, MaxNameLen)
    /\ fnOut = <<>>

SanitizeCall ==
    /\ pc = "sanitize"
    /\ fnOut' = sanitizeFilename(fnIn)
    /\ pc' = "sanitized"
    /\ UNCHANGED <<hist, config, folder, i, usedPrompts, attempt, newIdea,
                   ideaCompletion, streamVars, result, log, counters, failure,
                   mock, fnIn>>

SpecSanitize == InitSanitize /\ [][SanitizeCall]_vars

---------------------------------------------------------------------------
(* Properties *)

Count(q, e) == Cardinality({k \in DOMAIN q : q[k] = e})

\* k failed attempts, a delay after each of them, then one last event.
Alternating(k, last) ==
    [j \in 1..(2 * k + 1) |->
        IF j = 2 * k + 1 THEN last ELSE IF j % 2 = 1 THEN "fail" ELSE "delay"]

AtReturn == pc \in {"ideaRet", "svgRet"}

\* C1: when generateAndSaveSVGs returns, generateNewIdea has been entered
\* exactly outputCount times, whatever the collaborator answered and however
\* many iterations persisted a file.
C1_ExactlyNIterations ==
    /\ ideaEntered <= outputCount
    /\ pc = "done" => ideaEntered = outputCount /\ i = outputCount

C1_Witness ==
    /\ pc = "done"
    /\ outputCount = 2
    /\ ideaEntered = 2
    /\ Cardinality(written) = 1
    /\ ideaOks = 1

\* C2: a retry loop whose call fails k times and then succeeds returns the
\* result of the successful call after exactly k + 1 calls (k + 1 <= maxRetries)
\* and k retry delays, one after each failed attempt and before the next one.
C2_SuccessAfterKFailures ==
    (log # <<>> /\ log[Len(log)] = "ok") =>
        LET k == Count(log, "fail")
        IN  /\ AtReturn \/ pc = "aborted"
            /\ k + 1 <= maxRetries
            /\ log = Alternating(k, "ok")
            /\ Count(log, "delay") = k
            /\ pc = "ideaRet" => newIdea = Some(IdeaText(ideaCompletion))
            /\ pc # "ideaRet" =>
                   result = Some([description |-> usedPrompts[Len(usedPrompts)],
                                  svg |-> Trim(accumulatedResponse)])

C2_Witness ==
    /\ pc = "svgRet"
    /\ log = <<"fail", "delay", "ok">>
    /\ ~IsNone(result)
    /\ Val(result).svg = SvgTag

\* C3: a retry loop whose call fails on every attempt makes exactly maxRetries
\* calls, returns null without raising, and takes a retry delay after every
\* failed attempt but the last.
C3_AllAttemptsFail ==
    /\ (AtReturn /\ Count(log, "ok") = 0) =>
           /\ Count(log, "fail") = maxRetries
           /\ Count(log, "delay") = (IF maxRetries = 0 THEN 0 ELSE maxRetries - 1)
           /\ maxRetries > 0 => log = Alternating(maxRetries - 1, "fail")
           /\ pc = "ideaRet" => newIdea = None
           /\ pc = "svgRet" => result = None
           /\ failure = ""
    /\ pc \in {"idea", "ideaWait", "ideaDelay", "svg", "svgWait", "stream", "svgDelay"} =>
           /\ Count(log, "fail") <= maxRetries
           /\ failure = ""

C3_Witness ==
    /\ pc = "svgRet"
    /\ maxRetries = 2
    /\ log = <<"fail", "delay", "fail">>
    /\ result = None

\* C4: a file is written only by an iteration whose artifact call returned a
\* result that passed validation, and every file the run has written holds
\* text that begins with "<svg".
C4_WrittenOnlyIfValid ==
    /\ [][(files' # files \/ written' # written) =>
            /\ pc = "svgRet"
            /\ ~IsNone(result)
            /\ StartsWith(Trim(Val(result).svg), SvgTag)
            /\ files' = WriteFile(files, FileNameOf(usedPrompts[Len(usedPrompts)]),
                                  Val(result).svg)]_vars
    /\ [](\A n \in written : n \in DOMAIN files /\ StartsWith(files[n], SvgTag))

C4_Witness ==
    /\ pc = "done"
    /\ outputCount = 2
    /\ Len(usedPrompts) = 2
    /\ Cardinality(written) = 1
    /\ \E n \in written : files[n] = SvgTag \o <<"x">>

\* The position of the first chunk whose finish reason is "stop" or "length",
\* or one past the end of the stream when there is none.
FirstTerminal(s) ==
    LET T == {k \in DOMAIN s : s[k].finish \in {"stop", "length"}}
    IN  IF T = {} THEN Len(s) + 1 ELSE CHOOSE k \in T : \A m \in T : k <= m

RECURSIVE ConcatContents(_)
ConcatContents(s) ==
    IF s = <<>> THEN <<>>
    ELSE (IF Len(Head(s).content) = 0 THEN <<>> ELSE Head(s).content[1])
         \o ConcatContents(Tail(s))

\* C5: the accumulated text is the in-order concatenation of the contents of
\* the chunks before the first terminal chunk (of all chunks when there is
\* none); the terminal chunk's content is not appended and no chunk after it
\* is pulled.
C5_Accumulator ==
    LET t == FirstTerminal(chatCompletion)
    IN  /\ pos <= t
        /\ pos <= Len(chatCompletion)
        /\ accumulatedResponse = ConcatContents(SubSeq(chatCompletion, 1,
                                     IF pos < t THEN pos ELSE t - 1))
        /\ pc = "svgRet" =>
               /\ pos = (IF t <= Len(chatCompletion) THEN t ELSE Len(chatCompletion))
               /\ accumulatedResponse = ConcatContents(SubSeq(chatCompletion, 1, t - 1))

C5_Witness ==
    /\ pc = "svgRet"
    /\ Len(chatCompletion) = 3
    /\ pos = 2
    /\ chatCompletion[2] = Chunk(Some(SvgTag), "stop")
    /\ chatCompletion[3] = Chunk(Some(SvgTag), "none")
    /\ accumulatedResponse = SvgTag

\* The file names of the scripted ideas, in order.
MockNames == [j \in DOMAIN mockIdeas |-> FileNameOf(IdeaText(mockIdeas[j]))]

\* C6 as stated: three distinct valid ideas and three valid artifacts leave
\* exactly three files, each named from its idea and holding its artifact's
\* text verbatim.
C6_AsStated ==
    pc = "done" =>
        /\ Cardinality(DOMAIN files) = 3
        /\ DOMAIN files = Range(MockNames)
        /\ \A j \in DOMAIN mockIdeas :
               files[MockNames[j]] = ConcatContents(mockStreams[j])

\* C6, amended: when the three ideas sanitize to three different names, the
\* completed run leaves exactly three files, the j-th one named
\* sanitizeFilename(idea j) + ".svg" and holding the j-th artifact's text
\* without its leading and trailing white space.
C6_EndToEnd ==
    (pc = "done" /\ Distinct(MockNames)) =>
        /\ Cardinality(DOMAIN files) = 3
        /\ DOMAIN files = Range(MockNames)
        /\ written = Range(MockNames)
        /\ \A j \in DOMAIN mockIdeas :
               files[MockNames[j]] = Trim(ConcatContents(mockStreams[j]))

C6_Witness ==
    /\ pc = "done"
    /\ Distinct(MockNames)
    /\ Cardinality(DOMAIN files) = 3
    /\ \E j \in DOMAIN mockStreams :
           files[MockNames[j]] # ConcatContents(mockStreams[j])

\* C7: while every idea request has failed, no artifact request is made and no
\* file is written; once the folder is set up no exception leaves the run;
\* and the completed run has made all outputCount iterations, that is
\* outputCount * maxRetries idea requests.
C7_AllIdeaCallsFail ==
    ideaOks = 0 =>
        /\ svgCalls = 0
        /\ written = {}
        /\ usedPrompts = <<>>
        /\ pc = "aborted" => failure = "mkdir" /\ ideaCalls = 0
        /\ pc = "done" =>
               /\ ideaEntered = outputCount
               /\ ideaCalls = outputCount * maxRetries

C7_Witness ==
    /\ pc = "done"
    /\ ideaOks = 0
    /\ outputCount = 2
    /\ maxRetries = 2
    /\ ideaCalls = 4

\* C8 as stated: once set-up has succeeded the run always eventually
\* completes.
C8_AsStated == (pc = "loop") ~> (pc = "done")

\* C8, amended: once set-up has succeeded the run always eventually completes
\* after outputCount iterations unless a file write fails, which ends it at
\* once; no iteration is repeated.
C8_Termination ==
    /\ (pc = "loop") ~> (pc = "done" \/ failure = "write")
    /\ [](pc = "done" => i = outputCount /\ ideaEntered = outputCount)
    /\ [][i' = i \/ i' = i + 1]_vars
    /\ [][ideaEntered' # ideaEntered => ideaEntered' = i + 1 /\ i' = i]_vars

C8_Witness ==
    /\ pc = "done"
    /\ outputCount = 2
    /\ ideaEntered = 2
    /\ Cardinality(written) < outputCount
    /\ Len(usedPrompts) = 2

\* C9: validateSVG accepts exactly the texts that consist of white space
\* followed by "<svg" followed by anything.
C9_Validator ==
    pc = "validated" =>
        (fnOut <=> \E k \in 0..Len(fnIn) :
                      /\ \A j \in 1..k : fnIn[j] \in WhiteSpace
                      /\ Len(fnIn) >= k + 4
                      /\ \A j \in 1..4 : fnIn[k + j] = SvgTag[j])

C9_Witness ==
    /\ pc = "validated"
    /\ fnOut = TRUE
    /\ fnIn = <<" ">> \o SvgTag \o <<"\n">>

\* C10: sanitizeFilename keeps the length, lowercases every ASCII letter, keeps
\* every digit, replaces every other character by one "_" of its own, and
\* sanitizing the result again changes nothing.
C10_Sanitizer ==
    pc = "sanitized" =>
        /\ Len(fnOut) = Len(fnIn)
        /\ \A k \in DOMAIN fnOut :
               /\ fnOut[k] \in Range(LowerLetters) \cup Digits \cup {"_"}
               /\ fnIn[k] \in Range(LowerLetters) \cup Digits => fnOut[k] = fnIn[k]
               /\ fnIn[k] \in Range(UpperLetters) =>
                      \E m \in DOMAIN UpperLetters :
                          fnIn[k] = UpperLetters[m] /\ fnOut[k] = LowerLetters[m]
               /\ fnIn[k] \notin Range(LowerLetters) \cup Range(UpperLetters) \cup Digits
                      => fnOut[k] = "_"
        /\ sanitizeFilename(fnOut) = fnOut

C10_Witness ==
    /\ pc = "sanitized"
    /\ fnIn = <<"A", " ", "!">>
    /\ fnOut = <<"a", "_", "_">>

\* ---------------------------------------------------------------------------
\* Stage 2: the description derived from a file name

EndsWith(t, suffix) ==
    /\ Len(suffix) <= Len(t)
    /\ SubSeq(t, Len(t) - Len(suffix) + 1, Len(t)) = suffix

\* path.basename(file, ext): the name without a trailing ext
basename(file, ext) ==
    IF ext # <<>> /\ EndsWith(file, ext)
    THEN SubSeq(file, 1, Len(file) - Len(ext))
    ELSE file

\* .replace(/_/g, ' ')
ReplaceUnderscores(t) == [k \in DOMAIN t |-> IF t[k] = "_" THEN " " ELSE t[k]]

descriptionKeepsUnderscores(file) == basename(file, SvgExt)

\* const description = path.basename(file, '.svg').replace(/_/g, ' ')
description(file) == ReplaceUnderscores(basename(file, SvgExt))

\* the ideas stage 1 can name a file from: trimmed and not empty
AcceptedIdeas ==
    {t \in SeqsUpTo(NameChars, MaxNameLen) : t # <<>> /\ Trim(t) = t}

InitDescribe ==
    /\ InitFn
    /\ pc = "name"
    /\ fnIn \in AcceptedIdeas
    /\ fnOut = <<>>

\* stage 1 names the file of the idea
NameFile ==
    /\ pc = "name"
    /\ fnOut' = FileNameOf(fnIn)
    /\ pc' = "named"
    /\ UNCHANGED <<hist, config, folder, i, usedPrompts, attempt, newIdea,
                   ideaCompletion, streamVars, result, log, counters, failure,
                   mock, fnIn>>

\* stage 2 derives the description from the file name
DescribeFile ==
    /\ pc = "named"
    /\ fnOut' = description(fnOut)
    /\ pc' = "described"
    /\ UNCHANGED <<hist, config, folder, i, usedPrompts, attempt, newIdea,
                   ideaCompletion, streamVars, result, log, counters, failure,
                   mock, fnIn>>

NextDescribe == NameFile \/ DescribeFile

SpecDescribe == InitDescribe /\ [][NextDescribe]_vars

\* C11 as stated: the description stage 2 derives from the file of an idea is
\* that idea.
C11_AsStated == pc = "described" => fnOut = fnIn

\* C11: the description stage 2 derives from the file of an idea is the idea
\* with every ASCII letter lowercased, every digit kept and every other
\* character replaced by a space; it is the idea itself exactly when the idea
\* consists of lowercase ASCII letters, digits and spaces.
C11_RoundTrip ==
    pc = "described" =>
        /\ Len(fnOut) = Len(fnIn)
        /\ \A k \in DOMAIN fnIn :
               /\ fnIn[k] \in Range(LowerLetters) \cup Digits => fnOut[k] = fnIn[k]
               /\ fnIn[k] \in Range(UpperLetters) =>
                      \E m \in DOMAIN UpperLetters :
                          fnIn[k] = UpperLetters[m] /\ fnOut[k] = LowerLetters[m]
               /\ fnIn[k] \notin Range(LowerLetters) \cup Range(UpperLetters) \cup Digits
                      => fnOut[k] = " "
        /\ fnOut = fnIn <=>
               \A k \in DOMAIN fnIn :
                   fnIn[k] \in Range(LowerLetters) \cup Digits \cup {" "}

C11_Witness ==
    /\ pc = "described"
    /\ fnIn = <<"a", " ", "7">>
    /\ fnOut = fnIn

\* C12: when the output folder does not exist and cannot be created, the run
\* ends there with the failure handed to its caller: no iteration is entered,
\* no model call is made, no delay is taken, no file is written, and no
\* further step follows.
C12_SetupFailure ==
    /\ [](failure = "mkdir" =>
              /\ pc = "aborted"
              /\ ~folderExists
              /\ i = 0
              /\ ideaEntered = 0
              /\ ideaCalls = 0
              /\ svgCalls = 0
              /\ inFlight = 0
              /\ genDelays = 0
              /\ log = <<>>
              /\ usedPrompts = <<>>
              /\ written = {}
              /\ files = EmptyFolder)
    /\ [][failure # "mkdir"]_vars
    /\ [][pc = "start" /\ failure' # "" => failure' = "mkdir" /\ pc' = "aborted"]_vars

C12_Witness ==
    /\ failure = "mkdir"
    /\ pc = "aborted"
    /\ outputCount = 2
    /\ maxRetries = 2

\* C13: when the idea request of an iteration returns no idea, the next step
\* is the loop head of the next iteration: no artifact call is made, nothing
\* is appended to usedPrompts, no file is written and no generationDelay is
\* taken, so the only delays of that iteration are the retry delays of the
\* idea request.
C13_SkipWithoutIdea ==
    /\ [][(pc = "ideaRet" /\ Falsy(newIdea)) =>
              /\ pc' = "loop"
              /\ i' = i + 1
              /\ usedPrompts' = usedPrompts
              /\ svgCalls' = svgCalls
              /\ ideaCalls' = ideaCalls
              /\ inFlight' = inFlight
              /\ genDelays' = genDelays
              /\ files' = files
              /\ written' = written
              /\ saved' = saved
              /\ failure' = failure]_vars
    /\ [](pc = "ideaRet" /\ Falsy(newIdea) =>
              /\ Len(usedPrompts) < ideaEntered
              /\ svgCalls <= Len(usedPrompts) * maxRetries
              /\ Count(log, "delay") =
                     IF IsNone(newIdea) /\ maxRetries > 0
                     THEN Count(log, "fail") - 1
                     ELSE Count(log, "fail"))

C13_Witness ==
    /\ pc = "loop"
    /\ outputCount = 2
    /\ i = 1
    /\ ideaEntered = 1
    /\ ideaCalls = 2
    /\ ideaOks = 0
    /\ usedPrompts = <<>>
    /\ svgCalls = 0
    /\ genDelays = 0
    /\ written = {}

\* C14 as stated: every iteration but the final one is followed by one
\* generationDelay whether or not it obtained an idea, so that the loop head
\* of iteration i is reached after i delays and a completed run of N >= 1
\* iterations has taken N - 1 of them.
C14_AsStated ==
    (pc \in {"loop", "done"} /\ outputCount >= 1) =>
        genDelays = IF i < outputCount THEN i ELSE outputCount - 1

\* C14: every iteration that obtained an idea, except the final one, is
\* followed by exactly one generationDelay before the next idea call, whether
\* its artifact was saved or skipped; the final iteration and an iteration
\* without an idea are followed by none. Before the final iteration the
\* delays taken are as many as the ideas obtained, and a run of N >= 1
\* iterations takes at most N - 1 of them.
C14_Pacing ==
    /\ [][(pc = "svgRet" /\ failure' = "") =>
              IF i < outputCount - 1
              THEN pc' = "genDelay" /\ i' = i /\ genDelays' = genDelays
              ELSE pc' = "loop" /\ i' = i + 1 /\ genDelays' = genDelays]_vars
    /\ [][pc = "genDelay" =>
              /\ genDelays' = genDelays + 1
              /\ pc' = "loop"
              /\ i' = i + 1
              /\ ideaCalls' = ideaCalls]_vars
    /\ [][genDelays' # genDelays => pc = "genDelay" /\ i < outputCount - 1]_vars
    /\ [][(pc = "ideaRet" /\ Falsy(newIdea)) =>
              pc' # "genDelay" /\ genDelays' = genDelays]_vars
    /\ []((pc = "loop" /\ i < outputCount) => genDelays = Len(usedPrompts))
    /\ [](pc = "done" =>
              /\ genDelays \in {Len(usedPrompts) - 1, Len(usedPrompts)}
              /\ outputCount >= 1 => genDelays <= outputCount - 1)

C14_Witness ==
    /\ pc = "done"
    /\ outputCount = 2
    /\ Len(usedPrompts) = 2
    /\ written = {}
    /\ genDelays = 1

\* C15: the text of an artifact attempt is made of the fragments of that
\* attempt's own stream only: while a stream is read the accumulated text is
\* the concatenation of the chunks pulled from it, and an artifact returned
\* after earlier attempts failed in mid-stream holds none of their text.
C15_AttemptIndependence ==
    LET t == FirstTerminal(chatCompletion)
    IN  /\ pc = "stream" =>
               accumulatedResponse =
                   ConcatContents(SubSeq(chatCompletion, 1, IF pos < t THEN pos ELSE t - 1))
        /\ (pc = "svgRet" /\ ~IsNone(result)) =>
               /\ Val(result).svg = Trim(ConcatContents(SubSeq(chatCompletion, 1, t - 1)))
               /\ Val(result).description = Val(newIdea)

C15_Witness ==
    /\ pc = "svgRet"
    /\ log = <<"fail", "delay", "ok">>
    /\ discarded = SvgTag
    /\ ~IsNone(result)
    /\ Val(result).svg = <<"x">>

\* C16: usedPrompts only grows, and only at its end: a step leaves it as it
\* is or appends the idea just obtained, which happens for every idea
\* obtained and before the artifact call for that idea is made; at any time
\* the files written are no more than the ideas recorded, which are no more
\* than the iterations started.
C16_SessionState ==
    /\ [][IF usedPrompts' = usedPrompts
          THEN TRUE
          ELSE /\ pc = "ideaRet"
               /\ ~IsNone(newIdea)
               /\ usedPrompts' = Append(usedPrompts, Val(newIdea))
               /\ svgCalls' = svgCalls
               /\ pc' = "svg"]_vars
    /\ [][(pc = "ideaRet" /\ ~Falsy(newIdea)) =>
              usedPrompts' = Append(usedPrompts, Val(newIdea))]_vars
    /\ [][svgCalls' # svgCalls =>
              /\ usedPrompts # <<>>
              /\ usedPrompts[Len(usedPrompts)] = Val(newIdea)]_vars
    /\ [](/\ Cardinality(written) <= Len(saved)
          /\ Len(saved) <= Len(usedPrompts)
          /\ Len(usedPrompts) <= ideaEntered
          /\ ideaEntered <= outputCount)

C16_Witness ==
    /\ pc = "done"
    /\ outputCount = 2
    /\ ideaEntered = 2
    /\ usedPrompts = << <<"b">> >>
    /\ svgCalls = 2
    /\ saved = <<>>
    /\ written = {}

\* C17: at most one collaborator request is pending at any time and a step
\* starts at most one; an artifact call starts only when no request is pending
\* and the idea call has returned an idea; a step writes at most one file, and
\* only when no request is pending and the artifact call has returned; the
\* idea call of an iteration starts only when every earlier iteration has
\* ended and nothing of it is pending.
C17_Sequential ==
    /\ [](/\ inFlight \in {0, 1}
          /\ inFlight = 1 <=> pc \in {"ideaWait", "svgWait", "stream"})
    /\ [][ideaCalls' + svgCalls' <= ideaCalls + svgCalls + 1]_vars
    /\ [][svgCalls' # svgCalls =>
              /\ inFlight = 0
              /\ ~IsNone(newIdea)
              /\ IsNone(result)
              /\ ideaCalls' = ideaCalls]_vars
    /\ [][files' # files =>
              /\ inFlight = 0
              /\ pc = "svgRet"
              /\ ~IsNone(result)
              /\ \E n \in DOMAIN files' : files' = WriteFile(files, n, files'[n])
              /\ Len(saved') = Len(saved) + 1
              /\ ideaCalls' = ideaCalls
              /\ svgCalls' = svgCalls]_vars
    /\ [][ideaCalls' # ideaCalls =>
              /\ inFlight = 0
              /\ IsNone(newIdea)
              /\ IsNone(result)
              /\ ideaEntered = i + 1
              /\ svgCalls' = svgCalls]_vars

C17_Witness ==
    /\ pc = "svgWait"
    /\ inFlight = 1
    /\ i = 1
    /\ ideaCalls = 2
    /\ svgCalls = 2
    /\ Len(saved) = 1

\* C18: an existing file of the same name does not stop a save, and a save
\* replaces what that file held: between iterations and when the run has
\* ended, every file the run has written holds the artifact of the last saved
\* iteration whose idea sanitizes to its name, the other files are as they
\* were before the run, and the files the run has written are as many as the
\* distinct sanitized names of the saved ideas, which can be fewer than the
\* saved iterations.
C18_Collisions ==
    [](/\ (pc = "svgRet" /\ Accepts(result)) => ENABLED SaveOk
       /\ pc \in {"loop", "genDelay", "done", "aborted"} =>
              LET names == [k \in DOMAIN saved |->
                               sanitizeFilename(saved[k].description)]
              IN  /\ written = {names[k] \o SvgExt : k \in DOMAIN saved}
                  /\ written \subseteq DOMAIN files
                  /\ \A k \in DOMAIN saved :
                         (\A m \in DOMAIN saved : m > k => names[m] # names[k]) =>
                             files[names[k] \o SvgExt] = saved[k].svg
                  /\ \A n \in DOMAIN files \ written :
                         n \in DOMAIN OldFolder /\ files[n] = OldFolder[n]
                  /\ Cardinality(written) =
                         Cardinality({names[k] : k \in DOMAIN saved})
                  /\ Cardinality(written) <= Len(saved))

C18_Witness ==
    /\ pc = "done"
    /\ failure = ""
    /\ Len(saved) = 2
    /\ saved[1].description = <<"A", "!">>
    /\ saved[2].description = <<"a", "_">>
    /\ saved[1].svg = SvgTag
    /\ saved[2].svg = SvgTag \o <<"x">>
    /\ written = {<<"a", "_">> \o SvgExt}
    /\ files[<<"a", "_">> \o SvgExt] = SvgTag \o <<"x">>

\* C19: an idea request that completes with no text, or with whitespace
\* only, returns the empty idea after that single successful call; the
\* iteration then ends at once, with no further idea call, no artifact call
\* and nothing recorded, so usedPrompts never holds an empty or untrimmed
\* idea and no file is named from an empty idea.
C19_BlankIdea ==
    /\ []((pc = "ideaRet" /\ log # <<>> /\ log[Len(log)] = "ok"
              /\ IdeaText(ideaCompletion) = <<>>) =>
              /\ newIdea = Some(<<>>)
              /\ Count(log, "ok") = 1)
    /\ [][(pc = "ideaRet" /\ newIdea = Some(<<>>)) =>
              /\ pc' = "loop"
              /\ i' = i + 1
              /\ ideaCalls' = ideaCalls
              /\ svgCalls' = svgCalls
              /\ usedPrompts' = usedPrompts
              /\ files' = files]_vars
    /\ [](/\ \A k \in DOMAIN usedPrompts :
                 usedPrompts[k] # <<>> /\ Trim(usedPrompts[k]) = usedPrompts[k]
          /\ \A k \in DOMAIN saved : saved[k].description # <<>>
          /\ FileNameOf(<<>>) \notin written)

C19_Witness ==
    /\ pc = "loop"
    /\ outputCount = 2
    /\ maxRetries = 2
    /\ i = 1
    /\ ideaOks = 1
    /\ ideaCalls = 1
    /\ usedPrompts = <<>>
    /\ svgCalls = 0

\* C20: a call that completes without error ends its step whatever it
\* returned: once the idea step or the artifact step has returned, the
\* iteration makes no further call of that kind, and a returned artifact that
\* is empty or not valid is followed by the end of the iteration. Each step
\* makes at most one successful call and at most maxRetries calls, so a run
\* makes at most outputCount * maxRetries idea calls, as many artifact calls,
\* and 2 * outputCount * maxRetries model calls in all.
C20_RetriesOnlyOnFailure ==
    /\ [][pc = "svgRet" =>
              /\ svgCalls' = svgCalls
              /\ ideaCalls' = ideaCalls
              /\ pc' \in {"genDelay", "loop", "aborted"}]_vars
    /\ [][pc = "ideaRet" =>
              /\ ideaCalls' = ideaCalls
              /\ svgCalls' = svgCalls
              /\ pc' \in {"loop", "svg"}]_vars
    /\ [][(pc \in {"ideaWait", "stream"} /\ log' = Append(log, "ok")) =>
              pc' \in {"ideaRet", "svgRet"}]_vars
    /\ [](/\ Count(log, "ok") <= 1
          /\ Count(log, "ok") + Count(log, "fail") + inFlight <= maxRetries
          /\ Count(log, "ok") = 1 => AtReturn \/ pc = "aborted")
    /\ [](/\ ideaCalls <= ideaEntered * maxRetries
          /\ svgCalls <= Len(usedPrompts) * maxRetries
          /\ ideaCalls <= outputCount * maxRetries
          /\ svgCalls <= outputCount * maxRetries
          /\ ideaCalls + svgCalls <= 2 * outputCount * maxRetries)

C20_Witness ==
    /\ pc = "done"
    /\ outputCount = 2
    /\ maxRetries = 2
    /\ ideaCalls = 4
    /\ Len(usedPrompts) = 1
    /\ svgCalls = 1
    /\ saved = <<>>

====
